---- MODULE Spec2Model ----
(***************************************************************************)
(* A model of budget.py, a Streamlit script over two CSV files             *)
(* (budget.csv, expenses.csv).  Streamlit runs the whole script from the   *)
(* top on every interaction, so each page is one action: the script run    *)
(* for that page with the widget values (and whether the form's button was *)
(* pressed) as its inputs.                                                 *)
(*                                                                         *)
(* Text.  A period key is what strftime("%m/%Y") builds: a sequence of     *)
(* character codes, compared as Python compares strings.  Other texts      *)
(* (categories, descriptions) are TLA+ strings; they are only compared for *)
(* equality.                                                               *)
(*                                                                         *)
(* Money.  Every amount is an integer number of units, Scale units to the  *)
(* cent, with Scale chosen so that the products paycheck * percentage and  *)
(* the means over at most MaxExp rows are exact.                           *)
(***************************************************************************)
EXTENDS Integers, Sequences, FiniteSets, TLC

VARIABLES
    e_file,          \* expenses.csv: [exists, lines], a line a tuple of fields
    b_file,          \* budget.csv, likewise
    page,            \* the page the last script run rendered
    raised,          \* the exception that ended that run, "none" when it completed
    messages,        \* the st.error / st.write / st.warning messages it displayed
    e_load,          \* how that run's first load of the Expense table went
    b_load,          \* how that run's first load of the Budget table went
    calc,            \* the Allocation Calculator's values (Allocate my Paycheck)
    expense_summary, \* the table reloaded at the head of the Expense Summary
    summary,         \* the Expense Summary's totals and comparisons
    trend,           \* the series drawn by time_plot (Finances at a Glance)
    e_initial,       \* history: expenses.csv as it was at the start
    logged           \* history: the rows the expense form appended, in order

vars == <<e_file, b_file, page, raised, messages, e_load, b_load, calc,
          expense_summary, summary, trend, e_initial, logged>>

---------------------------------------------------------------------------
(* Bounds *)

\* the most data rows expenses.csv holds
MaxExp == 2
\* the most data rows budget.csv holds
MaxBud == 2

---------------------------------------------------------------------------
(* Sequences *)

Range(s) == {s[i] : i \in 1..Len(s)}

IsPrefix(s, t) == Len(s) <= Len(t) /\ \A i \in 1..Len(s) : s[i] = t[i]

RECURSIVE SumSeq(_)
SumSeq(s) == IF s = <<>> THEN 0 ELSE Head(s) + SumSeq(Tail(s))

RECURSIVE MaxSeq(_)
MaxSeq(s) ==
    IF Len(s) = 1 THEN Head(s)
    ELSE LET m == MaxSeq(Tail(s)) IN IF Head(s) > m THEN Head(s) ELSE m

RECURSIVE SeqsUpTo(_, _)
SeqsUpTo(S, n) ==
    IF n = 0 THEN {<<>>}
    ELSE LET shorter == SeqsUpTo(S, n - 1)
         IN  shorter \cup {Append(s, x) : s \in {t \in shorter : Len(t) = n - 1}, x \in S}

RECURSIVE Gcd(_, _)
Gcd(a, b) == IF b = 0 THEN a ELSE Gcd(b, a % b)

RECURSIVE LcmUpTo(_)
LcmUpTo(n) == IF n <= 1 THEN 1 ELSE LET l == LcmUpTo(n - 1) IN (l * n) \div Gcd(l, n)

\* units to the cent: a percentage of a cent amount and a mean of up to
\* MaxExp amounts are whole numbers of units
Scale == 100 * LcmUpTo(MaxExp)

Cents(c) == c * Scale

---------------------------------------------------------------------------
(* Period keys: curr_date.strftime("%m/%Y") *)

\* character codes relative to "0": the digits are 0..9 and "/" sorts below them
Slash == -1

Strftime(d) ==
    << d.month \div 10, d.month % 10, Slash,
       d.year \div 1000, (d.year \div 100) % 10, (d.year \div 10) % 10, d.year % 10 >>

\* Python's str < str: the first differing character decides, a proper prefix is less
RECURSIVE StrLess(_, _)
StrLess(s, t) ==
    IF t = <<>> THEN FALSE
    ELSE IF s = <<>> THEN TRUE
    ELSE IF Head(s) # Head(t) THEN Head(s) < Head(t)
    ELSE StrLess(Tail(s), Tail(t))

\* the calendar month a period key names, counted in months
MonthOf(k) == (k[4] * 1000 + k[5] * 100 + k[6] * 10 + k[7]) * 12 + (k[1] * 10 + k[2])

\* a set of strings as the sequence sort_values / groupby leave it: ascending
RECURSIVE SortStr(_)
SortStr(S) ==
    IF S = {} THEN <<>>
    ELSE LET least == CHOOSE x \in S : \A y \in S \ {x} : StrLess(x, y)
         IN  <<least>> \o SortStr(S \ {least})

---------------------------------------------------------------------------
(* The two tables and their files *)

b_columns == <<"Month", "Paycheck", "saving1", "saving2", "STS", "Total_Saved",
               "Fixed_Expenses", "Misc_Budget">>

e_columns == <<"Month", "Amount", "Category", "Planned_Unplanned", "Description">>

\* columns of an Expense row, by position (rows are appended positionally)
Month(r) == r[1]
Amount(r) == r[2]
Category(r) == r[3]

\* columns of a Budget row, by position
Fixed_Expenses(r) == r[7]
Misc_Budget(r) == r[8]

\* pd.DataFrame(columns=[...]): the named columns and no rows
EmptyFrame(columns) == [columns |-> columns, rows |-> <<>>]

NoFile == [exists |-> FALSE, lines |-> <<>>]

FileOf(lines) == [exists |-> TRUE, lines |-> lines]

\* Python's None and pandas' NaN (a missing value in a loaded frame)
None == "<None>"
NaN == "<NaN>"

\* the texts read_csv takes for a missing value (pandas' default na_values)
NaValues == {"", "#N/A", "#N/A N/A", "#NA", "-1.#IND", "-1.#QNAN", "-NaN", "-nan",
             "1.#IND", "1.#QNAN", "<NA>", "N/A", "NA", "NULL", "NaN", "None",
             "n/a", "nan", "null"}

\* read_csv on one text field
ReadText(field) == IF field \in NaValues THEN NaN ELSE field

\* to_csv on one text value: a missing value is written as the empty field
WriteText(value) == IF value \in {None, NaN} THEN "" ELSE value

\* read_csv / to_csv on a data line of expenses.csv: the period key holds "/"
\* and stays a string, the amount is a number, the other three are texts
ReadExpenseLine(line) ==
    <<line[1], line[2], ReadText(line[3]), ReadText(line[4]), ReadText(line[5])>>

WriteExpenseRow(r) ==
    <<r[1], r[2], WriteText(r[3]), WriteText(r[4]), WriteText(r[5])>>

\* budget.csv holds a period key and seven numbers, none of them a text that
\* read_csv or to_csv changes
ReadBudgetLine(line) == line

WriteBudgetRow(r) == r

\* the two tables, by the name of the script's variable for the file
ReadLine(table, line) ==
    IF table = "e" THEN ReadExpenseLine(line) ELSE ReadBudgetLine(line)

WriteRow(table, r) ==
    IF table = "e" THEN WriteExpenseRow(r) ELSE WriteBudgetRow(r)

\* read_csv raises for a missing file, for an empty one, and for a data line
\* with more fields than the header
ReadError(file) ==
    IF ~file.exists THEN "FileNotFoundError"
    ELSE IF file.lines = <<>> THEN "EmptyDataError"
    ELSE IF \E i \in 2..Len(file.lines) : Len(file.lines[i]) > Len(file.lines[1])
         THEN "ParserError"
    ELSE "none"

create_dataframe(file, table) ==
    [columns |-> Head(file.lines),
     rows |-> [i \in 1..(Len(file.lines) - 1) |-> ReadLine(table, file.lines[i + 1])]]

\* DataFrame.to_csv(path, index=False): the header and every row, replacing the file
to_csv(frame, table) ==
    FileOf(<<frame.columns>> \o [i \in 1..Len(frame.rows) |-> WriteRow(table, frame.rows[i])])

\* check_budget_exists / check_expense_exists: [frame, error]; error says
\* whether st.error("Error reading CSV: ...") was displayed
check_exists(file, columns, table) ==
    IF file.exists
    THEN IF ReadError(file) = "none"
         THEN [frame |-> create_dataframe(file, table), error |-> FALSE]
         ELSE [frame |-> EmptyFrame(columns), error |-> TRUE]
    ELSE [frame |-> EmptyFrame(columns), error |-> FALSE]

check_budget_exists == check_exists(b_file, b_columns, "b")

check_expense_exists(file) == check_exists(file, e_columns, "e")

\* what a run records of a load: not attempted, or the file's absence at the
\* time, the error reported or raised, and the frame obtained
NotLoaded == [done |-> FALSE, missing |-> FALSE, error |-> "none", frame |-> EmptyFrame(<<>>)]

LoadChecked(file, columns, table) ==
    LET got == check_exists(file, columns, table)
    IN  [done |-> TRUE, missing |-> ~file.exists,
         error |-> IF got.error THEN "Error reading CSV" ELSE "none",
         frame |-> got.frame]

LoadDirect(file, table) ==
    IF ReadError(file) = "none"
    THEN [done |-> TRUE, missing |-> FALSE, error |-> "none",
          frame |-> create_dataframe(file, table)]
    ELSE [done |-> TRUE, missing |-> ~file.exists, error |-> ReadError(file),
          frame |-> EmptyFrame(<<>>)]

---------------------------------------------------------------------------
(* Aggregation *)

\* the categories offered by the expense form's selectbox
Categories ==
    {"Rent", "Utilities", "Car Insurance", "Gas", "Public Transportation",
     "Groceries", "Dining Out", "Delivery Services", "Renters Insurance",
     "Medical Expenses", "Gym Membership", "Health-Related Products",
     "Subscriptions", "Movies, Concerts, Events", "Hobbies", "Travel",
     "Haircut", "Skincare, Makeup", "Clothes", "Toiletries (soap, toothpaste, etc.)",
     "Gifts", "Pet Expenses", "Other"}

fixed_categories ==
    {"Rent", "Subscriptions", "Groceries", "Utilities", "Gas", "Pet Expenses",
     "Gym Membership"}

Amounts(rows) == [i \in 1..Len(rows) |-> Amount(rows[i])]

RowsOf(rows, month, cats) ==
    LET Keep(r) == Month(r) = month /\ Category(r) \in cats IN SelectSeq(rows, Keep)

\* data.groupby(['Month', 'Category'])['Amount'].sum(), as the set of its keys
GroupKeys(rows) == {<<Month(r), Category(r)>> : r \in Range(rows)}

GroupSum(rows, month, cat) == SumSeq(Amounts(RowsOf(rows, month, {cat})))

\* the months of a column in order of first appearance: Series.unique()
RECURSIVE Unique(_)
Unique(rows) ==
    IF rows = <<>> THEN <<>>
    ELSE LET before == Unique(SubSeq(rows, 1, Len(rows) - 1))
             m == Month(rows[Len(rows)])
         IN  IF m \in Range(before) THEN before ELSE Append(before, m)

\* time_plot: the grouped sums of one category, sorted by the 'Month' string
time_plot(data, cat) ==
    LET months == {k[1] : k \in {g \in GroupKeys(data.rows) : g[2] = cat}}
        sorted == SortStr(months)
    IN  [i \in 1..Len(sorted) |->
            [Month |-> sorted[i], Amount |-> GroupSum(data.rows, sorted[i], cat)]]

\* DataFrame.sort_values(by='Month'): ascending by the string, rows with the
\* same key in their order
RECURSIVE SortByMonth(_)
SortByMonth(rows) ==
    IF rows = <<>> THEN <<>>
    ELSE LET last == rows[Len(rows)]
             before == SortByMonth(SubSeq(rows, 1, Len(rows) - 1))
             NotAfter(r) == ~StrLess(Month(last), Month(r))
             After(r) == StrLess(Month(last), Month(r))
         IN  SelectSeq(before, NotAfter) \o <<last>> \o SelectSeq(before, After)

sort_values(frame) == [frame EXCEPT !.rows = SortByMonth(@)]

---------------------------------------------------------------------------
(* Allocate my Paycheck: the Allocation Calculator *)

CategoryAmounts(expense_df, cat) ==
    LET Keep(r) == Category(r) = cat IN Amounts(SelectSeq(expense_df.rows, Keep))

\* expense_df[...]['Amount'].max() if not expense_df[...].empty else 0
MaxOrZero(expense_df, cat) ==
    LET a == CategoryAmounts(expense_df, cat) IN IF a = <<>> THEN 0 ELSE MaxSeq(a)

\* expense_df[...]['Amount'].mean() if not expense_df[...].empty else 0
MeanOrZero(expense_df, cat) ==
    LET a == CategoryAmounts(expense_df, cat) IN IF a = <<>> THEN 0 ELSE SumSeq(a) \div Len(a)

rent_max(expense_df) == MaxOrZero(expense_df, "Rent")
subscriptions_max(expense_df) == MaxOrZero(expense_df, "Subscriptions")
groceries_avg(expense_df) == MeanOrZero(expense_df, "Groceries")
utilities_max(expense_df) == MaxOrZero(expense_df, "Utilities")
gas_max(expense_df) == MeanOrZero(expense_df, "Gas")
pet_avg(expense_df) == MeanOrZero(expense_df, "Pet Expenses")
gym_max(expense_df) == MaxOrZero(expense_df, "Gym Membership")

\* paycheck * saving, the slider's fraction given in percentage points
Portion(paycheck, saving) == (paycheck * saving) \div 100

total_saved_dropping_fund3(saving1_acct, saving2_acct, saving3_acct) ==
    saving1_acct + saving2_acct

total_saved(saving1_acct, saving2_acct, saving3_acct) ==
    saving1_acct + saving2_acct + saving3_acct

fixed_budget(expense_df) ==
    rent_max(expense_df) + subscriptions_max(expense_df) + groceries_avg(expense_df)
    + utilities_max(expense_df) + gas_max(expense_df) + pet_avg(expense_df)

misc_budget(paycheck, saved, fixed) == paycheck - (saved + fixed)

NoCalc ==
    [done |-> FALSE, paycheck |-> 0, saving1 |-> 0, saving2 |-> 0, saving3 |-> 0,
     saving1_acct |-> 0, saving2_acct |-> 0, saving3_acct |-> 0,
     total_saved |-> 0, fixed_budget |-> 0, misc_budget |-> 0, shown |-> FALSE,
     curr_date |-> [year |-> 0, month |-> 0], submitted |-> FALSE]

Calculate(expense_df, paycheck, saving1, saving2, saving3) ==
    LET s1 == Portion(paycheck, saving1)
        s2 == Portion(paycheck, saving2)
        s3 == Portion(paycheck, saving3)
        saved == total_saved(s1, s2, s3)
        fixed == fixed_budget(expense_df)
    IN  [done |-> TRUE, paycheck |-> paycheck,
         saving1 |-> saving1, saving2 |-> saving2, saving3 |-> saving3,
         saving1_acct |-> s1, saving2_acct |-> s2, saving3_acct |-> s3,
         total_saved |-> saved, fixed_budget |-> fixed,
         misc_budget |-> misc_budget(paycheck, saved, fixed), shown |-> FALSE,
         curr_date |-> [year |-> 0, month |-> 0], submitted |-> FALSE]

\* st.date_input(value=None) with no date picked
NoDate == [year |-> 0, month |-> 0]

\* the names line 185 reads, in the order it reads them
new_data_names ==
    <<"month", "paycheck", "saving1_acct", "saving2_acct", "sts_acct", "total_saved",
      "fixed_budget", "misc_budget">>

\* the names the script has bound when it reaches line 185: month only under
\* "if curr_date:", and sts_acct nowhere
BoundNames(curr_date, c) ==
    [paycheck |-> c.paycheck, saving1_acct |-> c.saving1_acct,
     saving2_acct |-> c.saving2_acct, saving3_acct |-> c.saving3_acct,
     total_saved |-> c.total_saved, fixed_budget |-> c.fixed_budget,
     misc_budget |-> c.misc_budget]
    @@ (IF curr_date # NoDate THEN [month |-> Strftime(curr_date)] ELSE <<>>)

NoSummary ==
    [done |-> FALSE, select_month |-> <<>>,
     total_misc_expenses |-> 0, misc |-> 0, misc_result |-> "none", over_by_misc |-> 0,
     total_fixed_expenses |-> 0, fixed |-> 0, fixed_result |-> "none", over_by_fixed |-> 0]

NoTrend == [done |-> FALSE, series |-> <<>>]

\* the "Allocate my Paycheck" script run
AllocateMyPaycheck(in) ==
    \E saving1 \in in.pcts, saving2 \in in.pcts, saving3 \in in.pcts,
       curr_date \in in.dates \cup {NoDate}, paycheck \in in.paychecks,
       submitted \in BOOLEAN :
        LET budget == LoadChecked(b_file, b_columns, "b")
            expense == LoadChecked(e_file, e_columns, "e")
            c == [Calculate(expense.frame, paycheck, saving1, saving2, saving3)
                    EXCEPT !.curr_date = curr_date, !.submitted = submitted]
            bound == BoundNames(curr_date, c)
            unbound == {i \in 1..Len(new_data_names) : new_data_names[i] \notin DOMAIN bound}
            new_data == [i \in 1..Len(new_data_names) |-> bound[new_data_names[i]]]
            budget_df == [budget.frame EXCEPT !.rows = Append(@, new_data)]
        IN  /\ page' = "Allocate my Paycheck"
            /\ b_load' = budget
            /\ e_load' = expense
            /\ messages' = {m \in {budget.error, expense.error} : m # "none"}
            /\ IF submitted /\ unbound # {}
               THEN /\ raised' = "NameError"
                    /\ calc' = c
                    /\ b_file' = b_file
               ELSE /\ raised' = "none"
                    /\ calc' = [c EXCEPT !.shown = TRUE]
                    /\ b_file' = IF submitted THEN to_csv(budget_df, "b")
                                 ELSE b_file
            /\ expense_summary' = NotLoaded
            /\ summary' = NoSummary
            /\ trend' = NoTrend
            /\ UNCHANGED <<e_file, e_initial, logged>>

---------------------------------------------------------------------------
(* Log my Expenses *)

\* st.selectbox over expense_summary['Month'].unique(): one of the options,
\* None (here the empty string) when there are none
MonthOptions(frame) ==
    IF frame.rows = <<>> THEN {<<>>} ELSE Range(Unique(frame.rows))

\* the Miscellaneous Expenses block, lines 261-275: the bare except turns every
\* exception into the "no miscellaneous expenses" message
MiscBlock(expenses, budget_check, select_month) ==
    LET month_misc_expenses == RowsOf(expenses.rows, select_month, Categories)
        total == SumSeq(Amounts(month_misc_expenses))
        \* ...['Misc_Budget'][0]: the label 0, the first row of the whole table
        labelled == budget_check.rows # <<>> /\ Month(budget_check.rows[1]) = select_month
        misc == Misc_Budget(budget_check.rows[1])
    IN  IF month_misc_expenses = <<>>
        THEN [total |-> 0, budget |-> 0, result |-> "skipped", over_by |-> 0]
        ELSE IF ~labelled
        THEN [total |-> total, budget |-> 0, result |-> "skipped", over_by |-> 0]
        ELSE [total |-> total, budget |-> misc, over_by |-> total - misc,
              result |-> IF total > misc THEN "over" ELSE "within"]

\* ....iloc[0]: the first of the rows of the selected month
FirstInMonth(rows, select_month) ==
    LET Keep(r) == Month(r) = select_month IN SelectSeq(rows, Keep)[1]

\* the Fixed Expenses block, lines 279-299: only a KeyError is caught
FixedBlock(expenses, budget_check, select_month) ==
    LET month_fixed_expenses == RowsOf(expenses.rows, select_month, fixed_categories)
        total == SumSeq(Amounts(month_fixed_expenses))
        budgeted == \E i \in 1..Len(budget_check.rows) :
                        Month(budget_check.rows[i]) = select_month
        fixed == Fixed_Expenses(FirstInMonth(budget_check.rows, select_month))
    IN  IF month_fixed_expenses = <<>>
        THEN [total |-> 0, budget |-> 0, result |-> "skipped", over_by |-> 0,
              raised |-> "none"]
        ELSE IF ~budgeted
        THEN [total |-> total, budget |-> 0, result |-> "none", over_by |-> 0,
              raised |-> "IndexError"]
        ELSE [total |-> total, budget |-> fixed, over_by |-> total - fixed,
              result |-> IF total > fixed THEN "over" ELSE "within",
              raised |-> "none"]

MiscMessage(result) ==
    IF result = "skipped" THEN {"There are no miscellaneous expenses logged."}
    ELSE IF result = "over" THEN {"FYI you are over the miscellaneous spend budget"}
    ELSE {"You are within the miscellaneous spend budget."}

FixedMessage(result) ==
    IF result = "skipped" THEN {"There are no fixed expenses logged."}
    ELSE IF result = "over" THEN {"FYI you are over the fixed expenses budget"}
    ELSE IF result = "within" THEN {"You are within the fixed expenses budget."}
    ELSE {}

\* the "Log my Expenses" script run
LogMyExpenses(in) ==
    \E curr_date \in in.dates \cup {NoDate}, amount \in in.amounts,
       category \in in.categories, scheduled \in in.scheduled,
       description \in in.descriptions, expense_submit \in BOOLEAN :
        LET e_df == LoadChecked(e_file, e_columns, "e")
            b_df == LoadChecked(b_file, b_columns, "b")
            first == {m \in {e_df.error, b_df.error} : m # "none"}
            new_data == <<Strftime(curr_date), amount, category, scheduled, description>>
            appended == [e_df.frame EXCEPT !.rows = Append(@, new_data)]
        IN  /\ page' = "Log my Expenses"
            /\ e_load' = e_df
            /\ b_load' = b_df
            /\ calc' = NoCalc
            /\ trend' = NoTrend
            /\ b_file' = b_file
            /\ e_initial' = e_initial
            /\ IF expense_submit /\ curr_date = NoDate
               THEN \* line 247 reads month, bound only under "if curr_date:"
                    /\ raised' = "NameError"
                    /\ messages' = first
                    /\ expense_summary' = NotLoaded
                    /\ summary' = NoSummary
                    /\ UNCHANGED <<e_file, logged>>
               ELSE /\ expense_submit => Len(e_df.frame.rows) < MaxExp
                    /\ e_file' = IF expense_submit THEN to_csv(appended, "e")
                                 ELSE e_file
                    /\ logged' = IF expense_submit THEN Append(logged, new_data) ELSE logged
                    /\ LET reload == LoadChecked(e_file', e_columns, "e")
                           budget_check == LoadChecked(b_file, b_columns, "b")
                       IN  \E select_month \in MonthOptions(reload.frame) :
                             LET m == MiscBlock(reload.frame, budget_check.frame, select_month)
                                 f == FixedBlock(reload.frame, budget_check.frame, select_month)
                             IN  /\ expense_summary' = reload
                                 /\ raised' = f.raised
                                 /\ messages' =
                                      first
                                      \cup {x \in {reload.error, budget_check.error} : x # "none"}
                                      \cup (IF expense_submit
                                            THEN {"Your expense has been successfully logged!"}
                                            ELSE {})
                                      \cup MiscMessage(m.result) \cup FixedMessage(f.result)
                                 /\ summary' =
                                      [done |-> TRUE, select_month |-> select_month,
                                       total_misc_expenses |-> m.total, misc |-> m.budget,
                                       misc_result |-> m.result, over_by_misc |-> m.over_by,
                                       total_fixed_expenses |-> f.total, fixed |-> f.budget,
                                       fixed_result |-> f.result, over_by_fixed |-> f.over_by]

---------------------------------------------------------------------------
(* Finances at a Glance *)

\* the categories whose trend the page plots
GlanceCategories == {"Rent", "Utilities", "Groceries"}

\* the "Finances at a Glance" script run: every exception of the body is
\* caught and displayed by the outer try
FinancesAtAGlance ==
    LET finances_df == LoadDirect(e_file, "e")
        savings == LoadDirect(b_file, "b")
    IN  /\ page' = "Finances at a Glance"
        /\ raised' = "none"
        /\ e_load' = finances_df
        /\ calc' = NoCalc
        /\ expense_summary' = NotLoaded
        /\ summary' = NoSummary
        /\ IF finances_df.error # "none"
           THEN /\ messages' =
                     IF finances_df.error = "FileNotFoundError"
                     THEN {"Error: budget.csv not found. Please upload or create a budget file."}
                     ELSE {"Error: " \o finances_df.error}
                /\ b_load' = NotLoaded
                /\ trend' = NoTrend
           ELSE /\ b_load' = savings
                /\ trend' = [done |-> TRUE,
                             series |-> [c \in GlanceCategories |->
                                            time_plot(sort_values(finances_df.frame), c)]]
                /\ messages' = IF savings.error # "none"
                               THEN {"There are no logged savings."} ELSE {}
        /\ UNCHANGED <<e_file, b_file, e_initial, logged>>

---------------------------------------------------------------------------
(* Historical Data *)

\* the "Historical Data" script run: nothing catches what create_dataframe raises
HistoricalData ==
    LET b_history == LoadDirect(b_file, "b")
        e_history == LoadDirect(e_file, "e")
    IN  /\ page' = "Historical Data"
        /\ b_load' = IF b_history.error = "none"
                     THEN [b_history EXCEPT !.frame = sort_values(@)] ELSE b_history
        /\ e_load' = IF b_history.error # "none" THEN NotLoaded
                     ELSE IF e_history.error = "none"
                     THEN [e_history EXCEPT !.frame = sort_values(@)] ELSE e_history
        /\ raised' = IF b_history.error # "none" THEN b_history.error ELSE e_history.error
        /\ messages' = {}
        /\ calc' = NoCalc
        /\ expense_summary' = NotLoaded
        /\ summary' = NoSummary
        /\ trend' = NoTrend
        /\ UNCHANGED <<e_file, b_file, e_initial, logged>>

---------------------------------------------------------------------------
(* Inputs and specifications *)

December == [year |-> 2024, month |-> 12]
January == [year |-> 2025, month |-> 1]

\* a data line with one field too many: read_csv raises ParserError on it
RaggedLine == <<Strftime(December), Cents(1), "Rent", "Yes", "rent", "extra">>

\* a budget row as the calculator would fill it for a 20.00 paycheck with
\* 20 %, 15 % and 10 % saved and 6.00 of fixed expenses
BudgetLine(d) ==
    <<Strftime(d), Cents(2000), Cents(400), Cents(300), Cents(200),
      Cents(900), Cents(600), Cents(500)>>

ExpenseLines(in) ==
    {WriteExpenseRow(<<Strftime(d), a, c, s, t>>) :
        d \in in.dates, a \in in.amounts, c \in in.categories,
        s \in in.scheduled, t \in in.descriptions}

\* expenses.csv as the program leaves it: the header and up to n data lines
ParsableFiles(in, n) ==
    {FileOf(<<e_columns>> \o s) : s \in SeqsUpTo(ExpenseLines(in), n)}

\* expenses.csv after a faulty edit: empty, or with a ragged line at its end
MalformedFiles(in, n) ==
    {FileOf(<<>>)}
    \cup {FileOf(<<e_columns>> \o s \o <<RaggedLine>>) : s \in SeqsUpTo(ExpenseLines(in), n)}

BudgetFiles(in) ==
    {NoFile, FileOf(<<b_columns, BudgetLine(December) \o <<0>> >>)}
    \cup {FileOf(<<b_columns>> \o s) :
            s \in SeqsUpTo({BudgetLine(d) : d \in in.dates}, MaxBud)}

InitWith(efiles, bfiles) ==
    /\ e_file \in efiles
    /\ b_file \in bfiles
    /\ e_initial = e_file
    /\ logged = <<>>
    /\ page = "none"
    /\ raised = "none"
    /\ messages = {}
    /\ e_load = NotLoaded
    /\ b_load = NotLoaded
    /\ calc = NoCalc
    /\ expense_summary = NotLoaded
    /\ summary = NoSummary
    /\ trend = NoTrend

\* the whole application: two months in two years, a fixed and a
\* miscellaneous category, amounts on both sides of the budgeted 6.00 / 5.00
AppInputs ==
    [dates |-> {December, January},
     amounts |-> {Cents(300), Cents(350)},
     categories |-> {"Rent", "Dining Out"},
     scheduled |-> {"Yes"},
     descriptions |-> {"rent or dinner"},
     paychecks |-> {Cents(2000)},
     pcts |-> {15}]

Init == InitWith({NoFile} \cup ParsableFiles(AppInputs, 0), BudgetFiles(AppInputs))

Next ==
    \/ FinancesAtAGlance
    \/ AllocateMyPaycheck(AppInputs)
    \/ LogMyExpenses(AppInputs)
    \/ HistoricalData

Spec == Init /\ [][Next]_vars

\* the expense store: one month and category, the Planned pills set or left
\* unset, the description an ordinary text, left blank, or the text "NA"
StoreInputs ==
    [dates |-> {December},
     amounts |-> {Cents(300)},
     categories |-> {"Dining Out"},
     scheduled |-> {"Yes", None},
     descriptions |-> {"lunch", "", "NA"},
     paychecks |-> {Cents(2000)},
     pcts |-> {15}]

StoreInit ==
    InitWith({NoFile} \cup ParsableFiles(StoreInputs, 1) \cup MalformedFiles(StoreInputs, 1),
             {NoFile, FileOf(<<b_columns, BudgetLine(December)>>)})

StoreNext ==
    \/ FinancesAtAGlance
    \/ AllocateMyPaycheck(StoreInputs)
    \/ LogMyExpenses(StoreInputs)
    \/ HistoricalData

StoreSpec == StoreInit /\ [][StoreNext]_vars

\* the calculator: every expense history of up to MaxExp rows over three of
\* the fixed categories, a zero and a non-zero paycheck, each slider at 15 %
\* or at its maximum of 30 %
CalcInputs ==
    [dates |-> {December},
     amounts |-> {Cents(300), Cents(350)},
     categories |-> {"Rent", "Groceries", "Gym Membership"},
     scheduled |-> {"Yes"},
     descriptions |-> {"bill"},
     paychecks |-> {0, Cents(2000)},
     pcts |-> {15, 30}]

CalcInit == InitWith({NoFile} \cup ParsableFiles(CalcInputs, MaxExp), {NoFile})

CalcNext == AllocateMyPaycheck(CalcInputs)

CalcSpec == CalcInit /\ [][CalcNext]_vars

---------------------------------------------------------------------------
(* The claims *)

DataRows(file) == IF file.lines = <<>> THEN <<>> ELSE Tail(file.lines)

\* C1: every submission of the paycheck form with a date selected appends
\* exactly one row to the persisted Budget table and leaves the earlier rows in
\* place.
C1_PaycheckSubmitAppendsOneRow ==
    [][(page' = "Allocate my Paycheck" /\ calc'.submitted /\ calc'.curr_date # NoDate)
        => /\ b_file'.exists
           /\ Len(DataRows(b_file')) = Len(b_load'.frame.rows) + 1
           /\ IsPrefix(b_load'.frame.rows, create_dataframe(b_file', "b").rows)]_vars

\* a text field read back as it was submitted; a field left blank or unset
\* reads back as a missing value
SameField(submitted, reloaded) ==
    \/ submitted = reloaded
    \/ submitted \in {"", None, NaN} /\ reloaded \in {"", None, NaN}

SameRow(r, q) ==
    /\ r[1] = q[1] /\ r[2] = q[2]
    /\ \A i \in 3..5 : SameField(r[i], q[i])

\* C2: starting from an absent or parsable expenses.csv, after any sequence of
\* successful Log Expense submissions the reloaded table holds exactly the
\* rows that were in the file initially followed by the submitted rows, one
\* per submission, in submission order.
C2_ReloadYieldsInitialThenSubmitted ==
    (page = "Log my Expenses" /\ expense_summary.done
        /\ ReadError(e_initial) \in {"none", "FileNotFoundError"})
    => LET expected == check_expense_exists(e_initial).frame.rows \o logged
           reloaded == expense_summary.frame.rows
       IN  /\ Len(reloaded) = Len(expected)
           /\ \A i \in 1..Len(expected) : SameRow(expected[i], reloaded[i])

\* the per-category statistic of the Allocation Calculator: the maximum for
\* four of the fixed categories, the mean for the other three, 0 without rows
Statistic(expense_df, cat) ==
    IF cat \in {"Rent", "Subscriptions", "Utilities", "Gym Membership"}
    THEN MaxOrZero(expense_df, cat)
    ELSE MeanOrZero(expense_df, cat)

RECURSIVE SumStatistics(_, _)
SumStatistics(expense_df, cats) ==
    IF cats = {} THEN 0
    ELSE LET c == CHOOSE x \in cats : TRUE
         IN  Statistic(expense_df, c) + SumStatistics(expense_df, cats \ {c})

\* C3: fixed_budget is the sum of the statistic over all seven fixed
\* categories, a category without expense rows contributing 0.
C3_FixedBudgetSumsSevenCategories ==
    calc.done =>
        calc.fixed_budget = SumStatistics(e_load.frame, fixed_categories)

\* C4: for every paycheck P >= 0, fractions f1, f2, f3 of 0 to 30 percent and
\* every expense history, saving_i = P * f_i, total_saved is the sum of the
\* three, misc_budget = P - total_saved - fixed_budget, and the three savings,
\* fixed_budget and misc_budget add up to P; a negative misc_budget is shown.
C4_AllocationIdentity ==
    (calc.done /\ calc.paycheck >= 0
        /\ \A f \in {calc.saving1, calc.saving2, calc.saving3} : f \in 0..30)
    => /\ 100 * calc.saving1_acct = calc.paycheck * calc.saving1
       /\ 100 * calc.saving2_acct = calc.paycheck * calc.saving2
       /\ 100 * calc.saving3_acct = calc.paycheck * calc.saving3
       /\ calc.total_saved = calc.saving1_acct + calc.saving2_acct + calc.saving3_acct
       /\ calc.misc_budget = calc.paycheck - calc.total_saved - calc.fixed_budget
       /\ calc.saving1_acct + calc.saving2_acct + calc.saving3_acct
            + calc.fixed_budget + calc.misc_budget = calc.paycheck
       /\ (~calc.submitted => calc.shown /\ raised = "none")

\* a paycheck of which savings and fixed expenses take more than the whole:
\* all three funds and the fixed budget positive, the rest negative and shown
C4_Witness ==
    /\ calc.done /\ calc.shown /\ raised = "none"
    /\ calc.paycheck > 0
    /\ calc.saving1_acct > 0 /\ calc.saving2_acct > 0 /\ calc.saving3_acct > 0
    /\ calc.fixed_budget > 0
    /\ calc.misc_budget < 0
    /\ \E r \in Range(e_load.frame.rows) : Category(r) = "Groceries"

HasExpenses(month) == \E r \in Range(expense_summary.frame.rows) : Month(r) = month

MonthTotal(month, cats) ==
    SumSeq(Amounts(RowsOf(expense_summary.frame.rows, month, cats)))

\* C5: for the selected month the fixed total sums the rows in the fixed
\* categories and the miscellaneous total sums the rows outside them, so the
\* two add up to all of the month's expenses.
C5_FixedAndMiscPartitionTheMonth ==
    (page = "Log my Expenses" /\ summary.done /\ HasExpenses(summary.select_month))
    => /\ summary.total_fixed_expenses = MonthTotal(summary.select_month, fixed_categories)
       /\ summary.total_misc_expenses =
            MonthTotal(summary.select_month, Categories \ fixed_categories)
       /\ summary.total_fixed_expenses + summary.total_misc_expenses =
            MonthTotal(summary.select_month, Categories)

BudgetRowsOf(month) ==
    LET Keep(r) == Month(r) = month IN SelectSeq(check_budget_exists.frame.rows, Keep)

Verdict(actual, budgeted) == IF actual > budgeted THEN "over" ELSE "within"

\* C6: for a selected month with expenses and a Budget row at any position,
\* each of the two totals is compared with that month's budgeted amount: over
\* budget exactly when actual > budgeted, by actual - budgeted, else within.
C6_ComparesWithTheMonthsBudgetRow ==
    (page = "Log my Expenses" /\ summary.done /\ HasExpenses(summary.select_month)
        /\ BudgetRowsOf(summary.select_month) # <<>>)
    => LET row == BudgetRowsOf(summary.select_month)[1]
       IN  /\ summary.misc_result = Verdict(summary.total_misc_expenses, Misc_Budget(row))
           /\ summary.misc_result = "over"
                => summary.over_by_misc = summary.total_misc_expenses - Misc_Budget(row)
           /\ MonthTotal(summary.select_month, fixed_categories) # 0
                => /\ summary.fixed_result =
                        Verdict(summary.total_fixed_expenses, Fixed_Expenses(row))
                   /\ summary.fixed_result = "over"
                        => summary.over_by_fixed =
                             summary.total_fixed_expenses - Fixed_Expenses(row)

\* C7: when the selected month has expense rows and the Budget table has no
\* row for it, both comparisons are skipped with a message and no exception
\* escapes the page.
C7_MissingBudgetRowIsSkipped ==
    (page = "Log my Expenses" /\ summary.done /\ HasExpenses(summary.select_month)
        /\ BudgetRowsOf(summary.select_month) = <<>>)
    => /\ raised = "none"
       /\ summary.misc_result = "skipped"
       /\ summary.fixed_result = "skipped"

AbsentIsEmpty(load, columns) ==
    (load.done /\ load.missing)
    => /\ load.error = "none"
       /\ load.frame = EmptyFrame(columns)
       /\ raised # "FileNotFoundError"

\* C8: on every page, loading the Budget or the Expense table when its file
\* does not exist is not an error: the load returns the canonical columns and
\* zero rows, and the page continues rendering.
C8_AbsentFileLoadsEmptyOnEveryPage ==
    AbsentIsEmpty(e_load, e_columns) /\ AbsentIsEmpty(b_load, b_columns)

\* a line of the file kept: the same text, or a data line that reads as the
\* same row
LineKept(before, after) ==
    \/ before = after
    \/ /\ Len(before) = Len(e_columns) /\ Len(after) = Len(e_columns)
       /\ before # e_columns /\ after # e_columns
       /\ ReadExpenseLine(before) = ReadExpenseLine(after)

\* C9: expenses.csv is append-only: across every page view and submission its
\* contents before are a prefix of its contents after, also when the file was
\* unparsable at load time and when a submission fails for want of a date.
C9_ExpenseFileIsAppendOnly ==
    [][/\ Len(e_file.lines) <= Len(e_file'.lines)
       /\ \A i \in 1..Len(e_file.lines) : LineKept(e_file.lines[i], e_file'.lines[i])]_vars

\* the sums of one category month by month, the months in calendar order
ChronologicalSeries(data, cat) ==
    LET months == {k[1] : k \in {g \in GroupKeys(data.rows) : g[2] = cat}}
        Earlier(a, b) == MonthOf(a) < MonthOf(b)
        Place(m) == 1 + Cardinality({n \in months : Earlier(n, m)})
    IN  [i \in 1..Cardinality(months) |->
            LET m == CHOOSE n \in months : Place(n) = i
            IN  [Month |-> m, Amount |-> GroupSum(data.rows, m, cat)]]

\* C10: the series of time_plot holds one (Month, Amount) pair per month in
\* which the category has expenses, Amount the month's sum for the category,
\* the pairs in chronological order of their months.
C10_TrendIsChronological ==
    trend.done =>
        \A c \in GlanceCategories :
            trend.series[c] = ChronologicalSeries(e_load.frame, c)

====
